---- MODULE Spec2Model ----
(***************************************************************************)
(* Model of the sports-video analytics service: the FastAPI handlers of    *)
(* app/main.py (submit, status, download, background task), the frame loop *)
(* of VideoProcessor.process_video and the per-frame behaviour of          *)
(* SportsDetector.detect_frame / draw_detections.                          *)
(*                                                                         *)
(* All coroutines run on one asyncio event loop: a coroutine keeps the     *)
(* loop until it awaits.  `running' holds the index of the background task *)
(* that currently owns the loop (0 when the loop is free); request         *)
(* handlers run only while the loop is free, so they observe a pipeline    *)
(* only before it starts, at its `await asyncio.sleep' or after it ended.  *)
(***************************************************************************)
EXTENDS Integers, Sequences, FiniteSets, TLC

(* ------------------------------ bounds -------------------------------- *)
\* number of accepted submissions explored
MaxJobs == 2
\* the wall clock (whole seconds, int(time.time())) runs over 0..MaxTime
MaxTime == 1
\* frame_skip values explored: 1..MaxSkip
MaxSkip == 2
\* frames of the longest input video; above 2 * YieldEvery so that a yield
\* occurs under a stride of two as well
MaxFrames == 21

\* boxes the YOLO model reports on the frame given to the detector alone
MaxBoxes == 2
\* detect_frame calls explored on that frame
MaxInferences == 1
\* requests to /detect/image explored
MaxImages == 1
\* info bands blended into the frame given to the annotator
MaxPasses == 2

(* ------------------------- program constants -------------------------- *)
\* label_size[1]: the text height cv2.getTextSize reports for
\* FONT_HERSHEY_SIMPLEX at scale 0.5 and thickness 2, whatever the label
TextHeight == 12
\* processed_frames % 100 == 0 -> the progress line is computed and logged
LogEvery == 100
\* processed_frames % 10 == 0 -> await asyncio.sleep
YieldEvery == 10
\* overlay_height of _add_frame_overlay
overlay_height == 80
\* heights of the input videos explored: one below the info band, one above
ShortHeight == overlay_height - 16
TallHeight == overlay_height * 6
\* a job identifier no submission ever gets (the clock stays below it); its
\* decimal form starts with the digit of a real job identifier
NeverId == MaxTime + 10

(* ------------------------------ strings ------------------------------- *)
\* A string is a sequence of one-character strings.
LowerChar(c) ==
    CASE c = "A" -> "a" [] c = "B" -> "b" [] c = "I" -> "i" [] c = "K" -> "k"
      [] c = "M" -> "m" [] c = "O" -> "o" [] c = "P" -> "p" [] c = "T" -> "t"
      [] c = "V" -> "v" [] c = "X" -> "x" [] OTHER -> c

Lower(s) == [i \in DOMAIN s |-> LowerChar(s[i])]

EndsWith(s, suf) ==
    /\ Len(s) >= Len(suf)
    /\ SubSeq(s, Len(s) - Len(suf) + 1, Len(s)) = suf

StartsWith(s, pre) ==
    /\ Len(s) >= Len(pre)
    /\ SubSeq(s, 1, Len(pre)) = pre

VideoExts ==
    { <<".", "m", "p", "4">>, <<".", "a", "v", "i">>,
      <<".", "m", "o", "v">>, <<".", "m", "k", "v">> }

\* the extension test without the dot of the extension
IsVideoNameNoDot(name) == \E e \in VideoExts : EndsWith(Lower(name), Tail(e))

\* file.filename.lower().endswith(('.mp4', '.avi', '.mov', '.mkv'))
IsVideoName(name) == \E e \in VideoExts : EndsWith(Lower(name), e)

\* the upload names explored
GoodNames == { <<"a", ".", "m", "p", "4">>, <<"B", ".", "M", "k", "V">> }
BadNames  == { <<"c", ".", "t", "x", "t">>, <<"m", "p", "4">>,
               <<"a", ".", "m", "p", "4", ".", "t", "x", "t">>,
               <<"m", "o", "v", ".">> }
Names == GoodNames \cup BadNames

DigitChar(d) == CASE d = 0 -> "0" [] d = 1 -> "1" [] d = 2 -> "2" [] d = 3 -> "3"
                  [] d = 4 -> "4" [] d = 5 -> "5" [] d = 6 -> "6" [] d = 7 -> "7"
                  [] d = 8 -> "8" [] OTHER -> "9"

\* f"{n}" for 0 <= n < 100
Str(n) == IF n < 10 THEN <<DigitChar(n)>>
          ELSE <<DigitChar(n \div 10), DigitChar(n % 10)>>

\* A file of the outputs directory is kept as <<timestamp, filename>>; its
\* name on disk is f"{timestamp}_processed_{file.filename}".
OutputName(p) == Str(p[1]) \o <<"_processed_">> \o p[2]

(* ------------------------------- videos ------------------------------- *)
\* An uploaded file.  openable: cv2.VideoCapture can open it; n: the frames
\* cap.read() yields before it returns ret = False; declared: the frame count
\* of the container's metadata (CAP_PROP_FRAME_COUNT); fps: int(CAP_PROP_FPS),
\* 0 for a rate below one frame per second; height: the frame height;
\* poison: the index of the frame on which the YOLO model raises, -1 if none.
Video(openable, n, declared, fps, height, poison) ==
    [openable |-> openable, n |-> n, declared |-> declared, fps |-> fps,
     height |-> height, poison |-> poison]

\* the content of a file that is no video, and of a capture not yet opened
NoVideo == Video(FALSE, 0, 0, 0, 0, -1)

\* a well-formed video of n frames; p is the frame the model fails on
Plain(n, p) == Video(TRUE, n, n, 30, TallHeight, p)

Videos ==
    \* not a video at all
    { NoVideo }
    \* well-formed videos: empty, short, and long enough for a yield
    \cup { Plain(n, -1) : n \in {0, 2, MaxFrames} }
    \* one frame the model fails on: a frame every stride selects, and one
    \* that a stride of two skips
    \cup { Plain(2, p) : p \in {0, 1} }
    \* frames lower than the info band
    \cup { Video(TRUE, 2, 2, 30, ShortHeight, -1) }
    \* a frame rate below 1 fps
    \cup { Video(TRUE, 2, 2, 0, TallHeight, -1) }
    \* a container that declares no frame count
    \cup { Video(TRUE, 2, 0, 30, TallHeight, -1) }

\* The uploads explored for the k-th accepted submission: every video for the
\* first, the well-formed ones without a failing frame for the later ones.
VideosFor(k) ==
    IF k = 1 THEN Videos ELSE { Plain(n, -1) : n \in {2, YieldEvery + 1} }

\* The number of sports-class boxes the YOLO model reports on frame i of v
\* (frames with none, one and two boxes all occur).
BoxCount(v, i) == i % 3

\* A frame as handed to out.write: src is the index of the decoded frame it
\* derives from, drawn the number of boxes draw_detections put on it, band
\* the frame number printed in the info band (NoBand: no band drawn).
NoBand == 0 - 1
RawFrame(i) == [src |-> i, drawn |-> 0, band |-> NoBand]

(* ------------------------ detector and annotator ---------------------- *)
\* a detector that reports no box on any frame
detect_frame_empty(v, i) == [n |-> 0, ok |-> TRUE, raises |-> FALSE]

\* SportsDetector.detect_frame: the model call raises on the poisoned frame;
\* the except branch then returns an empty detection list and leaves the
\* counters alone.  n is len(results['detections']); raises tells whether an
\* exception leaves detect_frame (its "except Exception" lets none out).
detect_frame(v, i) ==
    IF v.poison = i
    THEN [n |-> 0, ok |-> FALSE, raises |-> FALSE]
    ELSE [n |-> BoxCount(v, i), ok |-> TRUE, raises |-> FALSE]

\* VideoProcessor takes its detector as a constructor argument.  A detector
\* other than SportsDetector may let the failure of its model out of
\* detect_frame, as the detection contract allows.
raising_detect_frame(v, i) ==
    IF v.poison = i
    THEN [n |-> 0, ok |-> FALSE, raises |-> TRUE]
    ELSE [n |-> BoxCount(v, i), ok |-> FALSE, raises |-> FALSE]

\* SportsDetector.draw_detections: one box (and label) per detection, drawn
\* on a copy of the frame.
draw_detections(frame, n) == [frame EXCEPT !.drawn = @ + n]

\* VideoProcessor._add_frame_overlay blends an overlay of overlay_height rows
\* into frame[:overlay_height]; cv2.addWeighted raises when the frame has
\* fewer rows than the overlay.
OverlayFits(v) == v.height >= overlay_height

\* an info band that numbers the frames from one
_add_frame_overlay_from_one(frame, frame_num) ==
    [frame EXCEPT !.band = frame_num + 1]

\* the band shows "Frame: {frame_num}"
_add_frame_overlay(frame, frame_num) == [frame EXCEPT !.band = frame_num]

\* cv2.VideoWriter(output_path, fourcc, fps, (width, height)) opens (and
\* creates the file) only for a positive frame rate and frame size; it does
\* not raise otherwise, and write() on a writer that is not opened is a no-op.
WriterOpens(v) == v.fps > 0 /\ v.height > 0

(* ------------------------------- state -------------------------------- *)
VARIABLES
    app,               \* "starting", "serving" or "failed" (startup raised)
    detector,          \* the global detector: "none", "SportsDetector", or
                       \* "other" for a processor built around another one
    frame_skip,        \* VideoProcessor.frame_skip
    infoEnabled,       \* the pipeline's stdlib logger is enabled for INFO
    now,               \* int(time.time())
    uploads,           \* app/static/uploads: path -> content
    outputs,           \* app/static/outputs: the set of files
    tasks,             \* the background tasks, in scheduling order
    running,           \* the task that owns the event loop, 0 if none
    resp,              \* the last HTTP exchange: the request (req_name,
                       \* req_id) and the response sent for it
    total_inferences,  \* SportsDetector.total_inferences
    boxes,             \* the boxes the YOLO model reports on the frame that
                       \* is given to the detector alone: result.boxes
    detections,        \* results['detections'] of detect_frame on that frame
    labels,            \* the labels draw_detections put on that frame
    image,             \* the pixels of that frame, row by row: what has been
                       \* painted on each row, oldest layer first
    image_requests     \* the detect_frame calls of /detect/image so far: the
                       \* frame each was given and whether it ended in the
                       \* except branch

vars == <<app, detector, frame_skip, infoEnabled, now, uploads, outputs,
          tasks, running, resp, total_inferences, boxes, detections, labels,
          image, image_requests>>

\* the frame given to the detector alone; the service leaves it as it is
framevars == <<boxes, detections, labels, image>>

\* A Python number a / b, kept as the fraction; den = 0 stands for a division
\* that raises ZeroDivisionError.  Number(a) is the literal a.
Quotient(a, b) == [num |-> a, den |-> b]
Number(a) == [num |-> a, den |-> 1]
DivisionRaises(q) == q.den = 0

NoResult == [ok |-> FALSE, total_frames |-> 0, processed_frames |-> 0,
             total_detections |-> 0, processing_time |-> 0,
             fps_processed |-> Number(0),
             avg_detections_per_frame |-> Number(0),
             duration_seconds |-> Number(0)]

\* a task that is already inside the frame loop when it is scheduled
NewTaskStarted(ts, name) ==
    [job_id |-> ts, path |-> <<ts, name>>, pc |-> "loop",
     cap |-> "open", out |-> "open", video |-> NoVideo, total_frames |-> 0,
     frame_num |-> 0, processed_frames |-> 0, total_detections |-> 0,
     frame_times |-> <<>>, writes |-> <<>>, detected |-> <<>>,
     yields |-> 0, error |-> "none", results |-> NoResult]

\* The task scheduled by background_tasks.add_task(process_video_background,
\* input_path, output_path, timestamp), with the locals of process_video.
NewTask(ts, name) ==
    [job_id |-> ts, path |-> <<ts, name>>, pc |-> "scheduled",
     cap |-> "none", out |-> "none", video |-> NoVideo, total_frames |-> 0,
     frame_num |-> 0, processed_frames |-> 0, total_detections |-> 0,
     frame_times |-> <<>>, writes |-> <<>>, detected |-> <<>>,
     yields |-> 0, error |-> "none", results |-> NoResult]

NoResp == [kind |-> "none", req_name |-> <<>>, req_id |-> 0 - 1,
           code |-> 0, job_id |-> 0 - 1, status |-> "",
           file |-> <<>>, detail |-> "", body |-> <<>>]

\* the exchanges of the three endpoints, before the handler fills the response
SubmitReq(name) == [NoResp EXCEPT !.kind = "submit", !.req_name = name]
StatusReq(job_id) == [NoResp EXCEPT !.kind = "status", !.req_id = job_id]
DownloadReq(job_id) == [NoResp EXCEPT !.kind = "download", !.req_id = job_id]

Init ==
    /\ app = "starting"
    /\ detector = "none"
    /\ frame_skip \in 1..MaxSkip
    /\ infoEnabled \in BOOLEAN
    /\ now = 0
    /\ uploads = [p \in {} |-> NoVideo]
    /\ outputs = {}
    /\ tasks = <<>>
    /\ running = 0
    /\ resp = NoResp
    /\ total_inferences = 0
    /\ boxes = <<>>
    /\ detections = <<>>
    /\ labels = <<>>
    /\ image = <<>>
    /\ image_requests = <<>>

(* ------------------------------ startup ------------------------------- *)
\* startup_event: the model loads and the server starts serving.
Startup ==
    /\ app = "starting"
    /\ app' = "serving"
    /\ detector' = "SportsDetector"
    /\ UNCHANGED <<frame_skip, infoEnabled, now, uploads, outputs, tasks,
                   running, resp, total_inferences>>
    /\ UNCHANGED <<framevars, image_requests>>

\* The service wired with VideoProcessor(detector) for a detector whose
\* detect_frame raises when its model fails.
StartupInjected ==
    /\ app = "starting"
    /\ app' = "serving"
    /\ detector' = "other"
    /\ UNCHANGED <<frame_skip, infoEnabled, now, uploads, outputs, tasks,
                   running, resp, total_inferences>>
    /\ UNCHANGED <<framevars, image_requests>>

\* startup_event: SportsDetector() raises, the exception is re-raised and
\* the server never serves.
StartupFail ==
    /\ app = "starting"
    /\ app' = "failed"
    /\ UNCHANGED <<detector, frame_skip, infoEnabled, now, uploads, outputs,
                   tasks, running, resp, total_inferences>>
    /\ UNCHANGED <<framevars, image_requests>>

\* the wall clock reaches the next second
Tick ==
    /\ running = 0
    /\ now < MaxTime
    /\ now' = now + 1
    /\ UNCHANGED <<app, detector, frame_skip, infoEnabled, uploads, outputs,
                   tasks, running, resp, total_inferences>>
    /\ UNCHANGED <<framevars, image_requests>>

(* --------------------------- request handlers ------------------------- *)
\* A handler runs when the server serves and no pipeline owns the loop.
LoopFree == app = "serving" /\ running = 0

\* POST /detect/video, detect_objects_video
Submit(name, v) ==
    /\ LoopFree
    /\ IF detector = "none"
       THEN /\ resp' = [SubmitReq(name) EXCEPT !.code = 503,
                                      !.detail = "Model not loaded"]
            /\ UNCHANGED <<uploads, tasks>>
       ELSE IF ~IsVideoName(name)
       THEN /\ resp' = [SubmitReq(name) EXCEPT !.code = 400,
                                      !.detail = "Invalid video format"]
            /\ UNCHANGED <<uploads, tasks>>
       ELSE /\ Len(tasks) < MaxJobs
            /\ uploads' = [q \in DOMAIN uploads \cup {<<now, name>>} |->
                              IF q = <<now, name>> THEN v ELSE uploads[q]]
            /\ tasks' = Append(tasks, NewTask(now, name))
            /\ resp' = [SubmitReq(name) EXCEPT !.code = 200,
                                      !.job_id = now, !.file = name,
                                      !.detail = "Video processing started"]
    /\ UNCHANGED <<app, detector, frame_skip, infoEnabled, now, outputs,
                   running, total_inferences>>
    /\ UNCHANGED <<framevars, image_requests>>

\* a pattern that leaves the job identifier out: "*_processed_*"
GlobAnyJob(job_id) ==
    { p \in outputs : \E k \in 1..Len(OutputName(p)) :
                         OutputName(p)[k] = "_processed_" }

\* output_dir.glob(f"{job_id}_processed_*")
Glob(job_id) ==
    { p \in outputs : StartsWith(OutputName(p), Str(job_id) \o <<"_processed_">>) }

\* The frames held by an output file: those a task wrote through an opened
\* writer on that path.
Stored(t) == IF t.out \in {"open", "released"} THEN t.writes ELSE <<>>

Bodies(p) == { Stored(tasks[i]) : i \in { j \in DOMAIN tasks : tasks[j].path = p } }

\* a status handler that answers 404 when no output file matches
StatusRespNotFound(job_id) ==
    IF Glob(job_id) # {}
    THEN { [StatusReq(job_id) EXCEPT !.code = 200, !.job_id = job_id,
                          !.status = "completed", !.file = OutputName(p)] :
             p \in Glob(job_id) }
    ELSE { [StatusReq(job_id) EXCEPT !.code = 404, !.job_id = job_id,
                          !.detail = "Job not found"] }

\* The response of get_processing_status: "completed" with the name of
\* processed_files[0] (glob yields the matches in directory order, so any of
\* them may come first), "processing" when nothing matches.
StatusResp(job_id) ==
    IF Glob(job_id) # {}
    THEN { [StatusReq(job_id) EXCEPT !.code = 200, !.job_id = job_id,
                          !.status = "completed", !.file = OutputName(p)] :
             p \in Glob(job_id) }
    ELSE { [StatusReq(job_id) EXCEPT !.code = 200, !.job_id = job_id,
                          !.status = "processing",
                          !.detail = "Video is being processed..."] }

\* GET /status/{job_id}, get_processing_status
GetStatus(job_id) ==
    /\ LoopFree
    /\ resp' \in StatusResp(job_id)
    /\ UNCHANGED <<app, detector, frame_skip, infoEnabled, now, uploads,
                   outputs, tasks, running, total_inferences>>
    /\ UNCHANGED <<framevars, image_requests>>

\* The response of download_processed_video: 404 when nothing matches, else
\* the content of processed_files[0].
DownloadResp(job_id) ==
    IF Glob(job_id) = {}
    THEN { [DownloadReq(job_id) EXCEPT !.code = 404, !.job_id = job_id,
                          !.detail = "Processed video not found"] }
    ELSE UNION { { [DownloadReq(job_id) EXCEPT !.code = 200,
                                  !.job_id = job_id, !.file = OutputName(p),
                                  !.body = b] : b \in Bodies(p) } :
                 p \in Glob(job_id) }

\* GET /download/{job_id}, download_processed_video
Download(job_id) ==
    /\ LoopFree
    /\ resp' \in DownloadResp(job_id)
    /\ UNCHANGED <<app, detector, frame_skip, infoEnabled, now, uploads,
                   outputs, tasks, running, total_inferences>>
    /\ UNCHANGED <<framevars, image_requests>>

\* What cv2.imdecode makes of the bytes posted to /detect/image: an array,
\* or None when they are no image.
DecodedImages == {"array", "None"}

\* The call self.model(frame, ...) either returns or raises.  Given None as
\* its source, the YOLO model of some ultralytics releases raises and that
\* of others falls back to its bundled sample images and returns.
ModelOutcomes == {"returns", "raises"}

\* SportsDetector.detect_frame(frame) around one model call.  counted: the
\* counters were updated (lines 104-105, after the model returned); error:
\* the call ended in the except branch.  The return dictionary reads
\* frame.shape after the counters were updated, which raises for None.
detect_frame_on(frame, outcome) ==
    IF outcome = "raises" THEN [counted |-> FALSE, error |-> TRUE]
    ELSE IF frame = "None" THEN [counted |-> TRUE, error |-> TRUE]
    ELSE [counted |-> TRUE, error |-> FALSE]

ImageReq == [NoResp EXCEPT !.kind = "image"]

\* POST /detect/image, detect_objects_image: decode, detect, answer 200 with
\* the detections (none when detect_frame ended in its except branch).
DetectImage(frame, outcome) ==
    LET r == detect_frame_on(frame, outcome)
    IN  /\ LoopFree
        /\ Len(image_requests) < MaxImages
        /\ IF detector = "none"
           THEN /\ resp' = [ImageReq EXCEPT !.code = 503,
                                            !.detail = "Model not loaded"]
                /\ UNCHANGED <<total_inferences, image_requests>>
           ELSE /\ total_inferences' = IF r.counted THEN total_inferences + 1
                                       ELSE total_inferences
                /\ image_requests' =
                      Append(image_requests, [frame |-> frame, error |-> r.error])
                /\ resp' = [ImageReq EXCEPT !.code = 200]
        /\ UNCHANGED <<app, detector, frame_skip, infoEnabled, now, uploads,
                       outputs, tasks, running>>
        /\ UNCHANGED framevars

(* ----------------------------- the pipeline --------------------------- *)
SetTask(i, t) == tasks' = [tasks EXCEPT ![i] = t]

\* process_video's handler "except Exception as e: logger.error(...); raise":
\* the exception leaves process_video; no stream is released on the way.
Raise(t, err) == [t EXCEPT !.pc = "raised", !.error = err]

\* process_video_background starts and process_video runs up to the frame
\* loop: open the capture, read the properties, construct the writer.
PvOpen(i) ==
    LET t == tasks[i]
        present == t.path \in DOMAIN uploads
        v == IF present THEN uploads[t.path] ELSE NoVideo
    IN  /\ app = "serving"
        /\ running = 0
        /\ t.pc = "scheduled"
        /\ running' = i
        /\ IF ~v.openable
           THEN /\ SetTask(i, Raise([t EXCEPT !.cap = "closed"], "ValueError"))
                /\ UNCHANGED outputs
           ELSE /\ SetTask(i, [t EXCEPT !.cap = "open", !.video = v,
                                        !.total_frames = v.declared,
                                        !.out = IF WriterOpens(v) THEN "open"
                                                ELSE "failed",
                                        !.pc = "loop"])
                /\ outputs' = IF WriterOpens(v) THEN outputs \cup {t.path}
                              ELSE outputs
        /\ UNCHANGED <<app, detector, frame_skip, infoEnabled, now, uploads,
                       resp, total_inferences>>
        /\ UNCHANGED <<framevars, image_requests>>

\* the stride test taken one frame late
SkippedShifted(frame_num) == (frame_num + 1) % frame_skip # 0

\* "if frame_num % self.frame_skip != 0": the frame is not selected
Skipped(frame_num) == frame_num % frame_skip # 0

\* the yield test taken one processed frame late
YieldDueLate(processed_frames) == processed_frames % YieldEvery = 1

\* "if processed_frames % 10 == 0", at the end of a processed iteration
YieldDue(processed_frames) == processed_frames % YieldEvery = 0

\* One iteration of "while True": cap.read(), then either the pass-through
\* of a skipped frame or detect / draw / overlay / write / metrics / yield.
PvFrame(i) ==
    LET t == tasks[i]
        v == t.video
        k == t.frame_num
        r == IF detector = "SportsDetector" THEN detect_frame(v, k)
             ELSE raising_detect_frame(v, k)
        annotated == _add_frame_overlay(draw_detections(RawFrame(k), r.n), k)
        pf == t.processed_frames + 1
        done == [t EXCEPT !.writes = Append(@, annotated),
                          !.detected = Append(@, k),
                          !.processed_frames = pf,
                          !.total_detections = @ + r.n,
                          !.frame_times = Append(@, k)]
    IN  /\ running = i
        /\ t.pc = "loop"
        /\ IF k >= v.n
           THEN \* ret is False: break
                /\ SetTask(i, [t EXCEPT !.pc = "cleanup"])
                /\ UNCHANGED <<running, total_inferences>>
           ELSE IF Skipped(k)
           THEN \* skipped frame: written as decoded
                /\ SetTask(i, [t EXCEPT !.writes = Append(@, RawFrame(k)),
                                        !.frame_num = k + 1])
                /\ UNCHANGED <<running, total_inferences>>
           ELSE /\ total_inferences' = IF r.ok THEN total_inferences + 1
                                       ELSE total_inferences
                /\ IF r.raises
                   THEN \* an exception out of detect_frame ends the run
                        /\ SetTask(i, Raise([t EXCEPT !.detected = Append(@, k)],
                                            "DetectionError"))
                        /\ UNCHANGED running
                   ELSE IF ~OverlayFits(v)
                   THEN \* cv2.addWeighted raises inside _add_frame_overlay
                        /\ SetTask(i, Raise([t EXCEPT !.detected = Append(@, k)],
                                            "cv2.error"))
                        /\ UNCHANGED running
                   ELSE IF pf % LogEvery = 0 /\ t.total_frames = 0
                   THEN \* frame_num / total_frames divides by zero
                        /\ SetTask(i, Raise(done, "ZeroDivisionError"))
                        /\ UNCHANGED running
                   ELSE IF YieldDue(pf)
                   THEN \* await asyncio.sleep(0.001)
                        /\ SetTask(i, [done EXCEPT !.frame_num = k + 1,
                                                   !.yields = @ + 1,
                                                   !.pc = "yield"])
                        /\ running' = 0
                   ELSE /\ SetTask(i, [done EXCEPT !.frame_num = k + 1])
                        /\ UNCHANGED running
        /\ UNCHANGED <<app, detector, frame_skip, infoEnabled, now, uploads,
                       outputs, resp>>
        /\ UNCHANGED <<framevars, image_requests>>

\* the event loop resumes the pipeline after its sleep
PvResume(i) ==
    /\ running = 0
    /\ tasks[i].pc = "yield"
    /\ running' = i
    /\ SetTask(i, [tasks[i] EXCEPT !.pc = "loop"])
    /\ UNCHANGED <<app, detector, frame_skip, infoEnabled, now, uploads,
                   outputs, resp, total_inferences>>
    /\ UNCHANGED <<framevars, image_requests>>

\* the average without its guard
avg_detections_unguarded(total_detections, processed_frames) ==
    Quotient(total_detections, processed_frames)

\* "total_detections / processed_frames if processed_frames > 0 else 0"
avg_detections(total_detections, processed_frames) ==
    IF processed_frames > 0 THEN Quotient(total_detections, processed_frames)
    ELSE Number(0)

\* "processed_frames / processing_time if processing_time > 0 else 0"
fps_processed(processed_frames, processing_time) ==
    IF processing_time > 0 THEN Quotient(processed_frames, processing_time)
    ELSE Number(0)

\* "total_frames / fps if fps > 0 else 0"
duration_seconds(total_frames, fps) ==
    IF fps > 0 THEN Quotient(total_frames, fps) ELSE Number(0)

\* time.time() - start_time in ticks of the clock: a short run may end
\* within the tick it started in
ProcessingTimes == {0, 1}

\* After the loop: release both streams, build the results, log them.  The
\* pipeline's logger is a stdlib logging.Logger: when it is enabled for INFO,
\* logger.info(msg, **results) raises TypeError on the keyword arguments.
PvFinish(i) ==
    LET t == tasks[i]
        rel == [t EXCEPT !.cap = "released",
                         !.out = IF @ = "open" THEN "released" ELSE @]
        avg == avg_detections(t.total_detections, t.processed_frames)
        dur == duration_seconds(t.total_frames, t.video.fps)
    IN  /\ running = i
        /\ t.pc = "cleanup"
        /\ \E processing_time \in ProcessingTimes :
              LET rate == fps_processed(t.processed_frames, processing_time)
              IN  IF DivisionRaises(avg) \/ DivisionRaises(rate)
                     \/ DivisionRaises(dur)
                  THEN SetTask(i, Raise(rel, "ZeroDivisionError"))
                  ELSE IF infoEnabled
                  THEN SetTask(i, Raise(rel, "TypeError"))
                  ELSE SetTask(i, [rel EXCEPT
                          !.pc = "returned",
                          !.results =
                             [ok |-> TRUE,
                              total_frames |-> t.total_frames,
                              processed_frames |-> t.processed_frames,
                              total_detections |-> t.total_detections,
                              processing_time |-> processing_time,
                              fps_processed |-> rate,
                              avg_detections_per_frame |-> avg,
                              duration_seconds |-> dur]])
        /\ UNCHANGED <<app, detector, frame_skip, infoEnabled, now, uploads,
                       outputs, running, resp, total_inferences>>
        /\ UNCHANGED <<framevars, image_requests>>

\* process_video_background after the await: on a result, remove the input
\* file; any exception (the pipeline's, or os.remove's) is logged and dropped.
BgEnd(i) ==
    LET t == tasks[i]
    IN  /\ running = i
        /\ t.pc \in {"returned", "raised"}
        /\ running' = 0
        /\ IF t.pc = "returned"
           THEN IF t.path \in DOMAIN uploads
                THEN /\ uploads' = [q \in DOMAIN uploads \ {t.path} |-> uploads[q]]
                     /\ SetTask(i, [t EXCEPT !.pc = "done"])
                ELSE /\ SetTask(i, [t EXCEPT !.pc = "done",
                                             !.error = "FileNotFoundError"])
                     /\ UNCHANGED uploads
           ELSE /\ SetTask(i, [t EXCEPT !.pc = "done"])
                /\ UNCHANGED uploads
        /\ UNCHANGED <<app, detector, frame_skip, infoEnabled, now, outputs,
                       resp, total_inferences>>
        /\ UNCHANGED <<framevars, image_requests>>

(* --------------------------- specification ---------------------------- *)
JobIds == 0..MaxTime \cup {NeverId}

Next ==
    \/ Startup
    \/ StartupFail
    \/ Tick
    \/ \E name \in Names, v \in VideosFor(Len(tasks) + 1) : Submit(name, v)
    \/ \E j \in JobIds : GetStatus(j)
    \/ \E j \in JobIds : Download(j)
    \/ \E i \in DOMAIN tasks : PvOpen(i)
    \/ \E i \in DOMAIN tasks : PvFrame(i)
    \/ \E i \in DOMAIN tasks : PvResume(i)
    \/ \E i \in DOMAIN tasks : PvFinish(i)
    \/ \E i \in DOMAIN tasks : BgEnd(i)

Spec == Init /\ [][Next]_vars

\* The same service around a detector that is not SportsDetector.
NextInjected ==
    \/ StartupInjected
    \/ StartupFail
    \/ Tick
    \/ \E name \in Names, v \in VideosFor(Len(tasks) + 1) : Submit(name, v)
    \/ \E j \in JobIds : GetStatus(j)
    \/ \E j \in JobIds : Download(j)
    \/ \E i \in DOMAIN tasks : PvOpen(i)
    \/ \E i \in DOMAIN tasks : PvFrame(i)
    \/ \E i \in DOMAIN tasks : PvResume(i)
    \/ \E i \in DOMAIN tasks : PvFinish(i)
    \/ \E i \in DOMAIN tasks : BgEnd(i)

SpecInjected == Init /\ [][NextInjected]_vars

\* The service with its image endpoint: video jobs and image requests share
\* the one SportsDetector.
NextShared ==
    \/ Startup
    \/ \E name \in GoodNames, v \in VideosFor(2) \cup {Plain(2, 0)} :
           Submit(name, v)
    \/ \E frame \in DecodedImages, outcome \in ModelOutcomes :
           DetectImage(frame, outcome)
    \/ \E i \in DOMAIN tasks : PvOpen(i)
    \/ \E i \in DOMAIN tasks : PvFrame(i)
    \/ \E i \in DOMAIN tasks : PvResume(i)
    \/ \E i \in DOMAIN tasks : PvFinish(i)
    \/ \E i \in DOMAIN tasks : BgEnd(i)

SpecShared == Init /\ [][NextShared]_vars

(* ---------------------- the detector on one frame --------------------- *)
\* self.sports_classes: person, sports ball, skis, snowboard
sports_classes == {0, 32, 36, 37}

\* the COCO class ids explored: the sports classes and bicycle
ClassIds == sports_classes \cup {1}

\* box tops and box sizes <<width, height>> explored; the areas are 2000,
\* 2001, 5000 and 5001
Tops == {0, 26, 27}
Sizes == { <<40, 50>>, <<69, 29>>, <<50, 100>>, <<3, 1667>> }

\* one box of result.boxes: the class and the corners x1, y1, x2, y2
RawBoxes ==
    { [cls |-> c, x1 |-> 0, y1 |-> y, x2 |-> s[1], y2 |-> y + s[2]] :
        c \in ClassIds, y \in Tops, s \in Sizes }

BoxLists == UNION { [1..n -> RawBoxes] : n \in 0..MaxBoxes }

\* role thresholds that include their bound
_classify_person_role_inclusive(detection) ==
    IF detection.area >= 5000 THEN "player"
    ELSE IF detection.area >= 2000 THEN "referee_or_coach"
    ELSE "spectator_or_other"

\* SportsDetector._classify_person_role
_classify_person_role(detection) ==
    IF detection.area > 5000 THEN "player"
    ELSE IF detection.area > 2000 THEN "referee_or_coach"
    ELSE "spectator_or_other"

\* the detection dictionary built for box number i (0-based) of the result;
\* the key sports_role exists for persons and balls only
Detection(i, box) ==
    LET detection == [id |-> i, class_id |-> box.cls,
                      bbox |-> <<box.x1, box.y1, box.x2, box.y2>>,
                      area |-> (box.x2 - box.x1) * (box.y2 - box.y1)]
    IN  IF box.cls = 0
        THEN detection @@ ("sports_role" :> _classify_person_role(detection))
        ELSE IF box.cls = 32
        THEN detection @@ ("sports_role" :> "ball")
        ELSE detection

RECURSIVE DetectionsFrom(_, _)
\* the loop "for i, (box, conf, cls_id) in enumerate(zip(...))" from box i on
DetectionsFrom(bs, i) ==
    IF i >= Len(bs) THEN <<>>
    ELSE IF bs[i + 1].cls \in sports_classes \/ bs[i + 1].cls = 0
    THEN <<Detection(i, bs[i + 1])>> \o DetectionsFrom(bs, i + 1)
    ELSE DetectionsFrom(bs, i + 1)

\* The label draw_detections puts on the frame for one detection: the text
\* with its baseline at label_y (it reaches up to label_y - label_size[1])
\* and the filled rectangle behind it.
Label(det) ==
    LET y1 == det.bbox[2]
        label_y == IF y1 - 10 > TextHeight THEN y1 - 10 ELSE TextHeight
    IN  [text_top |-> label_y - TextHeight, text_bottom |-> label_y,
         bg_top |-> label_y - TextHeight - 5, bg_bottom |-> label_y + 5]

(* The pixels of a frame, as far as the annotator is concerned: image[r + 1]
   is row r, the sequence of layers painted on it.  A layer is what one call
   painted on the row: the shapes of draw_detections, in drawing order, or
   the blended info band. *)
FrameRows == overlay_height + 2
BlankImage == [i \in 1..FrameRows |-> <<>>]

\* the shapes draw_detections paints on row r for one detection: the box
\* outline, the filled label background, the label text
ShapesAt(det, r) ==
    LET lab == Label(det)
        id == det.id
    IN  (IF det.bbox[2] <= r /\ r <= det.bbox[4]
         THEN <<[shape |-> "box", det |-> id]>> ELSE <<>>)
        \o (IF lab.bg_top <= r /\ r <= lab.bg_bottom
            THEN <<[shape |-> "background", det |-> id]>> ELSE <<>>)
        \o (IF lab.text_top <= r /\ r <= lab.text_bottom
            THEN <<[shape |-> "text", det |-> id]>> ELSE <<>>)

RECURSIVE LayerAt(_, _, _)
\* "for det in detections": the shapes painted on row r from detection k on
LayerAt(dets, k, r) ==
    IF k > Len(dets) THEN <<>>
    ELSE ShapesAt(dets[k], r) \o LayerAt(dets, k + 1, r)

\* a draw_detections that labels a frame without detections "no detections"
draw_rows_placeholder(img, dets) ==
    [i \in DOMAIN img |->
        LET layer == IF dets = <<>> /\ i - 1 <= TextHeight
                     THEN <<[shape |-> "text", det |-> 0 - 1]>>
                     ELSE LayerAt(dets, 1, i - 1)
        IN  IF layer = <<>> THEN img[i]
            ELSE IF img[i] # <<>> /\ img[i][Len(img[i])] = layer THEN img[i]
            ELSE Append(img[i], layer)]

\* SportsDetector.draw_detections on the rows of a copy of the frame.  The
\* shapes are opaque: a row on which nothing is painted keeps its pixels, and
\* painting the shapes that are already its topmost layer leaves it as it is.
draw_rows(img, dets) ==
    [i \in DOMAIN img |->
        LET layer == LayerAt(dets, 1, i - 1)
        IN  IF layer = <<>> THEN img[i]
            ELSE IF img[i] # <<>> /\ img[i][Len(img[i])] = layer THEN img[i]
            ELSE Append(img[i], layer)]

\* VideoProcessor._add_frame_overlay on the rows of a copy of the frame:
\* overlay_frame[:overlay_height] = cv2.addWeighted(...), a blend that
\* changes the rows it covers every time it is applied
overlay_rows(img) ==
    [i \in DOMAIN img |->
        IF i - 1 < overlay_height
        THEN Append(img[i], <<[shape |-> "band", det |-> 0 - 1]>>)
        ELSE img[i]]

\* the info bands blended into row r so far
Bands(img, r) ==
    Cardinality({ m \in DOMAIN img[r + 1] :
                     img[r + 1][m] = <<[shape |-> "band", det |-> 0 - 1]>> })

\* SportsDetector alone, given one frame whose boxes are drawn at the start
InitDetector ==
    /\ app = "starting"
    /\ detector = "SportsDetector"
    /\ frame_skip = 1
    /\ infoEnabled = FALSE
    /\ now = 0
    /\ uploads = [p \in {} |-> NoVideo]
    /\ outputs = {}
    /\ tasks = <<>>
    /\ running = 0
    /\ resp = NoResp
    /\ total_inferences = 0
    /\ boxes \in BoxLists
    /\ detections = <<>>
    /\ labels = <<>>
    /\ image = BlankImage
    /\ image_requests = <<>>

\* SportsDetector.detect_frame on the frame, the model call succeeding
DetectFrame ==
    /\ total_inferences < MaxInferences
    /\ detections' = DetectionsFrom(boxes, 0)
    /\ total_inferences' = total_inferences + 1
    /\ UNCHANGED <<app, detector, frame_skip, infoEnabled, now, uploads,
                   outputs, tasks, running, resp, boxes, labels, image,
                   image_requests>>

\* SportsDetector.detect_frame on the frame, the model call raising: the
\* except branch returns no detections and leaves the counters alone
DetectFrameFails ==
    /\ detections' = <<>>
    /\ UNCHANGED <<app, detector, frame_skip, infoEnabled, now, uploads,
                   outputs, tasks, running, resp, total_inferences, boxes,
                   labels, image, image_requests>>

\* SportsDetector.draw_detections(frame, detections)
DrawDetections ==
    /\ labels' = [k \in DOMAIN detections |-> Label(detections[k])]
    /\ image' = draw_rows(image, detections)
    /\ UNCHANGED <<app, detector, frame_skip, infoEnabled, now, uploads,
                   outputs, tasks, running, resp, total_inferences, boxes,
                   detections, image_requests>>

\* VideoProcessor._add_frame_overlay(annotated_frame, ...) on a frame of at
\* least overlay_height rows
AddFrameOverlay ==
    /\ Len(image) >= overlay_height
    /\ Bands(image, 0) < MaxPasses
    /\ image' = overlay_rows(image)
    /\ UNCHANGED <<app, detector, frame_skip, infoEnabled, now, uploads,
                   outputs, tasks, running, resp, total_inferences, boxes,
                   detections, labels, image_requests>>

NextDetector ==
    \/ DetectFrame
    \/ DrawDetections

SpecDetector == InitDetector /\ [][NextDetector]_vars

\* The annotation step of the pipeline (detect, draw, overlay) applied to one
\* frame and again to its own output, on frames with a person and a bicycle
\* in the band and reaching below it.
AnnotatorBoxLists ==
    { bs \in BoxLists :
        \A k \in DOMAIN bs : /\ bs[k].cls \in {0, 1}
                             /\ bs[k].y1 = 27
                             /\ bs[k].y2 - bs[k].y1 \in {50, 100} }

InitAnnotator == InitDetector /\ boxes \in AnnotatorBoxLists

NextAnnotator ==
    \/ DetectFrame
    \/ DetectFrameFails
    \/ DrawDetections
    \/ AddFrameOverlay

SpecAnnotator == InitAnnotator /\ [][NextAnnotator]_vars

(* ------------------------------ properties ---------------------------- *)
\* process_video returned its results dictionary
ReturnedResult(t) == t.results.ok

\* process_video is over, by return or by exception
RunEnded(t) == t.pc \in {"returned", "raised", "done"}

\* the frames of s derive, in order, from the decoded frames 0..n-1
CoversFrames(s, n) == Len(s) = n /\ \A k \in 1..n : s[k].src = k - 1

\* frame k was passed to the detector during the run of t
Detected(t, k) == \E m \in DOMAIN t.detected : t.detected[m] = k

RECURSIVE SumBoxes(_, _)
\* the detections reported on the frames of S, a failed detection counting 0
SumBoxes(v, S) ==
    IF S = {} THEN 0
    ELSE LET k == CHOOSE x \in S : TRUE
         IN  (IF v.poison = k THEN 0 ELSE BoxCount(v, k)) + SumBoxes(v, S \ {k})

\* C1: a run that completes normally on a video of N decodable frames has
\* written exactly N frames to the output, each decoded frame once, in order.
C1_OutputHasEveryFrame ==
    \A i \in DOMAIN tasks :
        ReturnedResult(tasks[i]) =>
            CoversFrames(Stored(tasks[i]), tasks[i].video.n)

\* C2: the detector is invoked on a frame iff its index is a multiple of
\* frame_skip; every other frame goes to the writer as decoded (no box, no
\* band) and adds nothing to processed_frames, total_detections, frame_times.
C2_DetectionOnlyOnSelected ==
    \A i \in DOMAIN tasks :
        LET t == tasks[i]
            handled == 0..(Len(t.writes) - 1)
            selected == { k \in handled : k % frame_skip = 0 }
        IN  /\ \A k \in handled : Detected(t, k) <=> k % frame_skip = 0
            /\ \A m \in DOMAIN t.detected : t.detected[m] % frame_skip = 0
            /\ \A k \in handled \ selected : t.writes[k + 1] = RawFrame(k)
            /\ t.processed_frames = Cardinality(selected)
            /\ Len(t.frame_times) = Cardinality(selected)
            /\ \A m \in DOMAIN t.frame_times : t.frame_times[m] \in selected
            /\ t.total_detections = SumBoxes(t.video, selected)

\* C2 witness: with a stride of two, a run has written a selected frame with
\* its band and a skipped frame as decoded.
C2_Witness ==
    \E i \in DOMAIN tasks :
        /\ frame_skip = 2
        /\ Len(tasks[i].writes) >= 2
        /\ tasks[i].writes[1].band = 0
        /\ tasks[i].writes[2] = RawFrame(1)
        /\ tasks[i].processed_frames = 1

\* the pipeline gets through v when no detection fails: the writer opens,
\* the info band fits the frame and the progress line can be computed
Processable(v) ==
    /\ v.openable /\ WriterOpens(v) /\ OverlayFits(v)
    /\ (v.declared # 0 \/ v.n < LogEvery)

\* C3: a detection that fails on one frame does not abort the job, whatever
\* detector the pipeline is given, one that raises included: the frame
\* counts zero detections and is still written, the remaining frames are
\* processed, and the job ends completed with an output covering all frames.
C3_DetectionFailureTolerated ==
    \A i \in DOMAIN tasks :
        LET t == tasks[i]
            v == t.video
            k == v.poison
        IN  (Processable(v) /\ k >= 0 /\ Detected(t, k)) =>
              /\ t.error # "DetectionError"
              /\ Len(t.writes) > k
              /\ t.writes[k + 1] = [src |-> k, drawn |-> 0, band |-> k]
              /\ RunEnded(t) =>
                    /\ CoversFrames(Stored(t), v.n)
                    /\ t.processed_frames =
                          Cardinality({ f \in 0..(v.n - 1) : f % frame_skip = 0 })
                    /\ \A r \in StatusResp(t.job_id) : r.status = "completed"

\* With SportsDetector the failure stays inside detect_frame: under Spec the
\* statement of C3 holds, and a job whose first frame made the model raise
\* ends with both of its frames in the output.
SportsDetectorToleratesFailure ==
    detector = "SportsDetector" => C3_DetectionFailureTolerated

PoisonedJobDone ==
    \E i \in DOMAIN tasks :
        /\ tasks[i].video.poison = 0
        /\ tasks[i].pc = "done"
        /\ Len(Stored(tasks[i])) = 2

\* C4: on every exit path of a run, each stream that was opened has been
\* released when the run returns or raises.
C4_StreamsReleasedOnExit ==
    \A i \in DOMAIN tasks :
        RunEnded(tasks[i]) => tasks[i].cap # "open" /\ tasks[i].out # "open"

\* no file of the outputs directory belongs to job_id
NoArtifact(job_id) == \A p \in outputs : p[1] # job_id

\* no submission was ever given job_id
NeverSubmitted(job_id) == \A i \in DOMAIN tasks : tasks[i].job_id # job_id

\* the pipeline of t ended by an exception
PipelineRaised(t) == RunEnded(t) /\ ~ReturnedResult(t)

\* the run of t has written its last frame and released both streams
OutputFinished(t) == t.cap = "released" /\ t.out = "released"

\* C5: when the pipeline run of a job ends with an unrecoverable error, the
\* job is failed, and a status query for it reports failed from then on.
C5_FailedRunReportsFailed ==
    \A i \in DOMAIN tasks :
        (tasks[i].pc = "done" /\ PipelineRaised(tasks[i])) =>
            \A r \in StatusResp(tasks[i].job_id) : r.status = "failed"

\* C6: completion is not observable before it happens: a status query
\* answers completed, and a download serves a file, only for a job whose
\* pipeline has finished writing and releasing the output.
C6_NoCompletionBeforeEnd ==
    ( \/ resp.kind = "status" /\ resp.status = "completed"
      \/ resp.kind = "download" /\ resp.code = 200 )
    => \E i \in DOMAIN tasks :
           tasks[i].job_id = resp.req_id /\ OutputFinished(tasks[i])

\* C7: a submission whose filename has none of the video extensions is
\* answered 400 "Invalid video format" and leaves no trace: no upload is
\* stored, no job is created, no pipeline task is scheduled for it.
C7_InvalidNameRejected ==
    /\ (resp.kind = "submit" /\ resp.req_name \in BadNames) =>
          /\ resp.code = 400
          /\ resp.detail = "Invalid video format"
          /\ resp.job_id = NoResp.job_id
    /\ \A q \in DOMAIN uploads : q[2] \notin BadNames
    /\ \A i \in DOMAIN tasks : tasks[i].path[2] \notin BadNames
    /\ \A q \in outputs : q[2] \notin BadNames

\* C7 witness: a submission was answered 400 while an accepted job exists.
C7_Witness ==
    /\ resp.kind = "submit"
    /\ resp.code = 400
    /\ Len(tasks) = 1

\* C8: a status query for a job identifier without output artifact, even one
\* never submitted, is answered 200 with status "processing" and the
\* queried identifier.
C8_StatusWithoutArtifact ==
    (resp.kind = "status" /\ NoArtifact(resp.req_id)) =>
        /\ resp.code = 200
        /\ resp.status = "processing"
        /\ resp.job_id = resp.req_id

\* C8 witness: the never-submitted identifier was reported processing while
\* the output of another job exists.
C8_Witness ==
    /\ resp.kind = "status"
    /\ resp.req_id = NeverId
    /\ resp.status = "processing"
    /\ NeverSubmitted(NeverId)
    /\ outputs # {}

\* what the caller of a status query can tell apart: the response without
\* the echoed identifier
Outcome(r) == [code |-> r.code, status |-> r.status, detail |-> r.detail,
               file |-> r.file]

\* C9: the status of a never-submitted identifier differs from the status
\* of a job that was submitted and is still processing.
C9_UnknownDistinguishable ==
    \A j1, j2 \in JobIds :
        ( /\ LoopFree
          /\ NeverSubmitted(j1)
          /\ \E i \in DOMAIN tasks :
                 tasks[i].job_id = j2 /\ ~RunEnded(tasks[i]) /\ NoArtifact(j2) )
        => { Outcome(r) : r \in StatusResp(j1) } \cap
           { Outcome(r) : r \in StatusResp(j2) } = {}

\* C10: a download for a job identifier without output artifact is answered
\* 404 and carries no file content.
C10_DownloadWithoutArtifact ==
    (resp.kind = "download" /\ NoArtifact(resp.req_id)) =>
        /\ resp.code = 404
        /\ resp.file = <<>>
        /\ resp.body = <<>>

\* C10 witness: a download was answered 404 while the output of another job
\* exists.
C10_Witness ==
    /\ resp.kind = "download"
    /\ resp.code = 404
    /\ NoArtifact(resp.req_id)
    /\ outputs # {}

\* the pipeline of t has started and has not ended: it owns the loop or
\* sleeps in its yield
Active(t) == t.pc \in {"loop", "yield", "cleanup"}

\* C11: every accepted submission gets a job identifier of its own, two
\* uploads of the same second included, so that no two pipeline tasks are
\* active at once for one identifier or on one input/output path.
C11_DistinctJobIds ==
    \A i, j \in DOMAIN tasks :
        i # j =>
            /\ tasks[i].job_id # tasks[j].job_id
            /\ tasks[i].path # tasks[j].path
            /\ ~(Active(tasks[i]) /\ Active(tasks[j])
                    /\ tasks[i].job_id = tasks[j].job_id)

\* C12: a run whose input cannot be opened, or whose output container cannot
\* be created, ends with an error and returns no result; a run that returns
\* a result has created its output.
C12_NoResultWithoutOutput ==
    \A i \in DOMAIN tasks :
        LET t == tasks[i]
        IN  /\ (t.cap = "closed" \/ t.out = "failed") => ~ReturnedResult(t)
            /\ (RunEnded(t) /\ (t.cap = "closed" \/ t.out = "failed")) =>
                   t.error # "none"
            /\ ReturnedResult(t) => t.path \in outputs

\* C13: in every result, avg_detections_per_frame is total_detections /
\* processed_frames when processed_frames > 0 and 0 when it is 0; building
\* the result never divides by zero, for fps_processed and duration_seconds
\* as well.
C13_NoDivisionByZero ==
    \A i \in DOMAIN tasks :
        LET t == tasks[i]
            r == t.results
        IN  /\ ReturnedResult(t) =>
                  /\ r.processed_frames > 0 =>
                        r.avg_detections_per_frame =
                            Quotient(r.total_detections, r.processed_frames)
                  /\ r.processed_frames = 0 =>
                        r.avg_detections_per_frame = Number(0)
                  /\ ~DivisionRaises(r.avg_detections_per_frame)
                  /\ ~DivisionRaises(r.fps_processed)
                  /\ ~DivisionRaises(r.duration_seconds)
            \* nothing raised between the release of the streams and the log
            /\ t.cap = "released" => t.error # "ZeroDivisionError"

\* C13 witness: a run over an input without decodable frames returned its
\* result within one tick of the clock, with an average of 0.
C13_Witness ==
    \E i \in DOMAIN tasks :
        /\ ReturnedResult(tasks[i])
        /\ tasks[i].video.n = 0
        /\ tasks[i].results.processed_frames = 0
        /\ tasks[i].results.processing_time = 0
        /\ tasks[i].results.avg_detections_per_frame = Number(0)

\* C14: a terminal state is final: once a status query has reported completed
\* for a job identifier, every status query that follows reports completed
\* with the same artifact, and every download that follows returns that
\* artifact.
C14_CompletedIsFinal ==
    (resp.kind = "status" /\ resp.status = "completed") =>
        /\ \A r \in StatusResp(resp.req_id) :
               r.status = "completed" /\ r.file = resp.file
        /\ \A d \in DownloadResp(resp.req_id) :
               d.code = 200 /\ d.file = resp.file
        /\ \A d1, d2 \in DownloadResp(resp.req_id) : d1.body = d2.body

\* C15: an accepted submission is answered without waiting for processing.
\* The step that produces the 200 response of a submission is the step that
\* stores the upload and schedules exactly one task for it, and that task
\* has not started: no stream opened, no frame read, detected or written.
\* No other step adds a task, and no step touches the tasks scheduled before.
C15_AnsweredBeforeProcessing ==
    [][ ( \/ Len(tasks') # Len(tasks)
          \/ (resp' # resp /\ resp'.kind = "submit" /\ resp'.code = 200) )
        => /\ Len(tasks') = Len(tasks) + 1
           /\ SubSeq(tasks', 1, Len(tasks)) = tasks
           /\ resp'.kind = "submit"
           /\ resp'.code = 200
           /\ LET t == tasks'[Len(tasks')]
              IN  /\ t.job_id = resp'.job_id
                  /\ t.path = <<resp'.job_id, resp'.req_name>>
                  /\ t.path \in DOMAIN uploads'
                  /\ t.pc = "scheduled"
                  /\ t.cap = "none" /\ t.out = "none"
                  /\ t.frame_num = 0 /\ t.processed_frames = 0
                  /\ t.writes = <<>> /\ t.detected = <<>>
      ]_vars

\* C15 witness: a second submission has just been answered 200, its task is
\* scheduled and not started, while the pipeline of the first sleeps in its
\* yield.
C15_Witness ==
    /\ resp.kind = "submit"
    /\ resp.code = 200
    /\ Len(tasks) = 2
    /\ tasks[1].pc = "yield"
    /\ tasks[2].pc = "scheduled"
    /\ tasks[2].path \in DOMAIN uploads
    /\ tasks[2].writes = <<>>

\* the frame the run of t handed to the writer last came out of the
\* detect / draw / overlay branch
LastWriteProcessed(t) ==
    /\ t.writes # <<>>
    /\ t.writes[Len(t.writes)].band = Len(t.writes) - 1
    /\ ~Skipped(Len(t.writes) - 1)

\* C16: inside the frame loop the pipeline yields exactly when the count of
\* processed frames has just become a positive multiple of 10: one yield per
\* multiple reached, each directly after a processed frame, so never more
\* than 10 detections in a row without a yield and none after a skipped frame.
C16_YieldEveryTenProcessed ==
    \A i \in DOMAIN tasks :
        LET t == tasks[i]
        IN  /\ t.yields = t.processed_frames \div YieldEvery
            /\ t.processed_frames - YieldEvery * t.yields < YieldEvery
            /\ t.pc = "yield" =>
                  /\ t.processed_frames > 0
                  /\ t.processed_frames % YieldEvery = 0
                  /\ LastWriteProcessed(t)
                  /\ running # i
            /\ (Active(t) /\ t.pc # "yield") => running = i

\* C16 witness: under a stride of two a run has yielded after its tenth
\* processed frame, resumed, and passed the next, skipped frame on without
\* another yield.
C16_Witness ==
    \E i \in DOMAIN tasks :
        /\ frame_skip = 2
        /\ tasks[i].pc = "loop"
        /\ tasks[i].yields = 1
        /\ tasks[i].processed_frames = YieldEvery
        /\ tasks[i].frame_num = 2 * YieldEvery
        /\ tasks[i].writes[2 * YieldEvery] = RawFrame(2 * YieldEvery - 1)

\* the indices of an n-frame input that the stride selects
SelectedFrames(n) == { f \in 0..(n - 1) : f % frame_skip = 0 }

\* C17: a run that completes normally on an N-frame input with stride k
\* reports processed_frames = #{ i in 0..N-1 : i % k = 0 } (N when k = 1),
\* total_detections = the sum of the detection counts of exactly those
\* frames, and has one frame_times entry per processed frame.
C17_ReportedCounts ==
    \A i \in DOMAIN tasks :
        LET t == tasks[i]
            r == t.results
            sel == SelectedFrames(t.video.n)
        IN  ReturnedResult(t) =>
              /\ r.processed_frames = Cardinality(sel)
              /\ frame_skip = 1 => r.processed_frames = t.video.n
              /\ r.total_detections = SumBoxes(t.video, sel)
              /\ Len(t.frame_times) = r.processed_frames
              /\ \A f \in sel : \E m \in DOMAIN t.frame_times : t.frame_times[m] = f

\* C17 witness: the longest input completed under a stride of two, with
\* detections counted on its selected frames.
C17_Witness ==
    \E i \in DOMAIN tasks :
        /\ ReturnedResult(tasks[i])
        /\ frame_skip = 2
        /\ tasks[i].video.n = MaxFrames
        /\ tasks[i].results.processed_frames = (MaxFrames + 1) \div 2
        /\ tasks[i].results.total_detections > 0

\* C18: frames are handled in input order: the k-th frame handed to the
\* writer derives from the k-th decoded frame, annotated or as decoded, and
\* the frame number in the info band of an annotated frame is its 0-based
\* input index, for every stride.
C18_InputOrder ==
    \A i \in DOMAIN tasks :
        LET t == tasks[i]
        IN  /\ \A k \in DOMAIN t.writes :
                  /\ t.writes[k].src = k - 1
                  /\ IF Skipped(k - 1) THEN t.writes[k] = RawFrame(k - 1)
                     ELSE t.writes[k].band = k - 1
            /\ \A k \in DOMAIN Stored(t) : Stored(t)[k].src = k - 1
            /\ t.pc \in {"loop", "yield", "cleanup"} =>
                   Len(t.writes) = t.frame_num

\* C18 witness: under a stride of two the output holds frame 0 with band 0,
\* frame 1 as decoded and frame 2 with band 2, in that order.
C18_Witness ==
    \E i \in DOMAIN tasks :
        /\ frame_skip = 2
        /\ Len(Stored(tasks[i])) >= 3
        /\ Stored(tasks[i])[1].band = 0
        /\ Stored(tasks[i])[2] = RawFrame(1)
        /\ Stored(tasks[i])[3].src = 2
        /\ Stored(tasks[i])[3].band = 2

\* the area of the box that detection d was built from
BoxArea(d) ==
    LET b == boxes[d.id + 1] IN (b.x2 - b.x1) * (b.y2 - b.y1)

\* C19: the role of a detection is a function of its class and area alone:
\* a person is player above 5000, referee_or_coach above 2000 and up to
\* 5000, spectator_or_other up to 2000; a ball is ball at any area; other
\* classes carry no role; only boxes of the sports classes are returned.
C19_RoleByClassAndArea ==
    \A k \in DOMAIN detections :
        LET d == detections[k]
            cls == boxes[d.id + 1].cls
            a == BoxArea(d)
        IN  /\ d.class_id = cls
            /\ d.area = a
            /\ cls \in {0, 32, 36, 37}
            /\ (cls = 0 /\ a > 5000) => d.sports_role = "player"
            /\ (cls = 0 /\ a > 2000 /\ a <= 5000) =>
                   d.sports_role = "referee_or_coach"
            /\ (cls = 0 /\ a <= 2000) => d.sports_role = "spectator_or_other"
            /\ cls = 32 => d.sports_role = "ball"
            /\ cls \notin {0, 32} => "sports_role" \notin DOMAIN d

\* C19 witness: of a bicycle and a person of area exactly 5000, the detector
\* returned the person alone, as referee_or_coach.
C19_Witness ==
    /\ Len(boxes) = 2
    /\ boxes[1].cls = 1
    /\ boxes[2].cls = 0
    /\ (boxes[2].x2 - boxes[2].x1) * (boxes[2].y2 - boxes[2].y1) = 5000
    /\ Len(detections) = 1
    /\ detections[1].id = 1
    /\ detections[1].sports_role = "referee_or_coach"

\* C20: whatever the top y1 of its box, nothing of a label lies above the
\* frame top: the text and its filled background rectangle have all their
\* y coordinates >= 0.
C20_LabelInsideFrame ==
    \A k \in DOMAIN labels :
        /\ labels[k].text_top >= 0
        /\ labels[k].text_bottom >= 0
        /\ labels[k].bg_top >= 0
        /\ labels[k].bg_bottom >= 0

\* C22: once the background task of a job has ended, its upload has been
\* deleted if and only if the pipeline returned a result: a pipeline that
\* raised leaves the input in place.  (The task ends in "done" on both paths:
\* the exception is logged and goes no further.)
C22_InputDeletedIffReturned ==
    \A i \in DOMAIN tasks :
        tasks[i].pc = "done" =>
            ( tasks[i].path \notin DOMAIN uploads <=> ReturnedResult(tasks[i]) )

\* Where every task has an upload path of its own the statement of C22
\* holds; it fails only between tasks that share one (C11).
PathsDistinct ==
    \A i, j \in DOMAIN tasks : i # j => tasks[i].path # tasks[j].path

InputDeletedIffReturnedOnOwnPath ==
    PathsDistinct => C22_InputDeletedIffReturned

\* C24: in every result total_frames is the number of frames decoded from
\* the input and written to the output, so processed_frames <= total_frames,
\* whatever frame count the container declares.
C24_TotalFramesIsDecoded ==
    \A i \in DOMAIN tasks :
        LET t == tasks[i]
        IN  /\ ReturnedResult(t) =>
                  /\ t.results.total_frames = t.video.n
                  /\ t.results.total_frames = Len(t.writes)
                  /\ t.results.processed_frames <= t.results.total_frames
            \* the progress line never fails
            /\ t.error # "ZeroDivisionError"

\* the detect_frame calls of the run of t that did not end in the except
\* branch
PipelineInferences(t) ==
    Cardinality({ m \in DOMAIN t.detected : t.detected[m] # t.video.poison })

RECURSIVE SumInferences(_)
SumInferences(n) ==
    IF n = 0 THEN 0 ELSE PipelineInferences(tasks[n]) + SumInferences(n - 1)

\* the image requests whose detect_frame call did not end in the except
\* branch
ImageInferences ==
    Cardinality({ m \in DOMAIN image_requests : ~image_requests[m].error })

\* C23: under every interleaving of jobs and image requests,
\* total_inferences is the number of detect_frame calls, of all callers, that
\* completed without an internal error: a failed detection leaves the
\* counter alone and no increment is lost.
C23_CountersConsistent ==
    total_inferences = SumInferences(Len(tasks)) + ImageInferences

\* As long as every frame given to detect_frame is a decoded image, the
\* statement of C23 holds, across the yields of two jobs as well.
CountersConsistentOnArrays ==
    (\A m \in DOMAIN image_requests : image_requests[m].frame = "array")
        => C23_CountersConsistent

\* C21: annotating a frame, an already annotated one included, with an empty
\* detection list draws no box and no label: draw_detections returns the
\* frame pixel for pixel, and the annotation step as a whole changes nothing
\* but the info band of the top overlay_height rows.
C21_EmptyAnnotationIsBandOnly ==
    [][ /\ (DrawDetections /\ detections = <<>>) => image' = image
        /\ AddFrameOverlay =>
              \A i \in DOMAIN image :
                  IF i - 1 < overlay_height
                  THEN /\ image'[i] # image[i]
                       /\ SubSeq(image'[i], 1, Len(image[i])) = image[i]
                  ELSE image'[i] = image[i]
      ]_vars

\* C21 witness: a frame annotated with a person reaching below the band was
\* annotated again with an empty detection list: its top row carries two
\* bands, its last row still exactly the box painted the first time.
C21_Witness ==
    /\ image # <<>>
    /\ detections = <<>>
    /\ labels = <<>>
    /\ Bands(image, 0) = 2
    /\ image[FrameRows] = << <<[shape |-> "box", det |-> 0]>> >>
    /\ Len(image[overlay_height]) = 3

====
